---- MODULE Spec2Model ----
(***************************************************************************)
(* The M2 communication layer of the dashboard (contexts/M2):              *)
(*   M2Provider        - inbound message handler, freeze gate, send        *)
(*   usePingPongState  - heartbeat monitor (interval tick, pong handler)   *)
(*   useStatusState    - status tracker with hotkey overrides              *)
(* One JavaScript event loop: every handler runs to completion, so each    *)
(* handler is one action.  Date.now() is the variable now.                 *)
(***************************************************************************)
EXTENDS Integers, Sequences, FiniteSets, TLC

\* ---------------------------------------------------------------- bounds
MaxTime == 6        \* Date.now() ranges over 1..MaxTime
MaxMsgs == 3        \* inbound frames that decode to an envelope
MaxInst == 2        \* heartbeat effect instances alive at once (interval ids)
MaxRenders == 3     \* renders of M2Provider

\* ------------------------------------------------------- input alphabets
\* (frequency, timeout) pairs passed to usePingPongState by its caller:
\* a period and a timeout, and pairs with a non-positive number.
Configs == { <<1, 3>>, <<2, 3>>, <<1, 4>> }
NonPositive == { <<0, 3>>, <<1, 0>>, <<-1, 3>> }

\* detail of a status event: [online, latency, rate]
StatusDetails == { <<TRUE, 1, 2>>, <<FALSE, 2, 1>> }

\* Text frames the transport can hand to handleMessage.  "garbage" is not
\* JSON; "null" is the JSON text null; the others are JSON objects.
Frames ==
    { [json |-> "garbage"], [json |-> "null"],
      [json |-> "object", event |-> "pong", data |-> <<>>],
      [json |-> "object", event |-> "signal", data |-> <<>>],
      [json |-> "object", event |-> "", data |-> <<>>],
      [json |-> "object", data |-> <<>>] }
    \cup { [json |-> "object", event |-> "status", data |-> d] : d \in StatusDetails }

\* What a subscriber of an application signal does from inside its handler:
\* nothing, or a re-entrant call of the context's freeze(true) / freeze(false).
Reentries == { "none", "engage", "release" }

VARIABLES
    now,                 \* Date.now()
    messageHandler,      \* handleMessage is registered on ws 'message'
    frozen,              \* M2Provider: let frozen
    frozenEventQ,        \* M2Provider: const frozenEventQ
    decoded,             \* history: number of CustomEvents created so far
    held,                \* history: ids that arrived while frozen, since the last release
    delivered,           \* history: listeners.dispatchEvent calls, in order
    closures,            \* live usePingPongState effect closures, by interval id
    timers,              \* interval ids with a running setInterval
    pongHandlers,        \* interval ids whose handlePong is registered on listeners
    props,               \* <<frequency, timeout>> of the current render, <<>> if unmounted
    effect,              \* interval id of the current render's effect, 0 if unmounted
    connected,           \* usePingPongState: useState connected
    latency,             \* usePingPongState: useState latency
    online,              \* useStatusState: useState online
    ignoreOnlineStatus,  \* useStatusState: useState ignoreOnlineStatus
    statusLatency,       \* useStatusState: useState latency
    rate,                \* useStatusState: useState rate
    statusClosure,       \* ignoreOnlineStatus as captured by handleStatus
    rendered,            \* number of renders of M2Provider so far
    context,             \* frozen, frozenEventQ of the latest render, when not the first
    last                 \* history: what the last handler run did

vars == << now, messageHandler, frozen, frozenEventQ, decoded, held, delivered,
           closures, timers, pongHandlers, props, effect, connected, latency,
           online, ignoreOnlineStatus, statusLatency, rate, statusClosure,
           rendered, context, last >>

gateVars    == << messageHandler, frozen, frozenEventQ, decoded, held, delivered >>
monitorVars == << closures, timers, pongHandlers, props, effect, connected, latency >>
statusVars  == << online, ignoreOnlineStatus, statusLatency, rate, statusClosure >>
renderVars  == << rendered, context >>

\* ------------------------------------------------------------ M2Provider
\* (variant) a catch that swallows the failure and goes on with an empty payload
ParsesAnything(frame) == TRUE

\* JSON.parse(event.data) followed by payload.event: throws on text that is
\* not JSON, and on JSON null (property read of null).
Parses(frame) == frame.json = "object"

\* new CustomEvent(payload.event, { detail: payload.data }): the type is the
\* string conversion of payload.event, "undefined" when the field is absent.
EventType(frame) ==
    IF "event" \in DOMAIN frame THEN frame.event ELSE "undefined"

\* payload.data, undefined (here the empty tuple) when the field is absent
EventDetail(frame) ==
    IF "data" \in DOMAIN frame THEN frame.data ELSE <<>>

CustomEvent(id, frame) ==
    [id |-> id, type |-> EventType(frame), detail |-> EventDetail(frame)]

\* The part of the state that a dispatch can change, gathered in one record
\* so that the handlers run one after another inside the calling handler.
\* pong and status are history: the last pong / status handled in this run.
Running ==
    [ frozen |-> frozen, frozenEventQ |-> frozenEventQ, delivered |-> delivered,
      closures |-> closures, connected |-> connected, latency |-> latency,
      online |-> online, statusLatency |-> statusLatency, rate |-> rate,
      pong |-> <<>>, status |-> <<>> ]

\* ------------------------------------------------------ usePingPongState
\* The closure of one run of the effect.  connected is the value of the
\* render that created the effect; probe is history: the send time of the
\* first ping not followed by a pong, a declared disconnection or an
\* irregular tick gap (0 when there is none); declared is history: the
\* instance's latest tick declared the channel disconnected; listeners is
\* the hub of the render that ran the effect (the EventTarget of that render);
\* remote is history: "awaiting" when no pong frame has arrived since the
\* instance's latest ping, "late" once a tick has run in that situation,
\* "prompt" when every ping so far had its pong frame before the next tick.
NewClosure(cfg, conn) ==
    [ frequency |-> cfg[1], timeout |-> cfg[2], connected |-> conn,
      at |-> 0, previousCheck |-> now, probe |-> 0, declared |-> FALSE,
      listeners |-> rendered, remote |-> "prompt" ]

\* function handlePong() of instance g
HandlePong(d, g) ==
    LET c == d.closures[g] IN
    [ d EXCEPT !.connected = IF ~ c.connected THEN TRUE ELSE @,
               !.latency = now - c.at,
               !.closures[g] = [c EXCEPT !.at = 0, !.probe = 0],
               !.pong = [ instance |-> g, outstanding |-> c.probe # 0,
                          d |-> now - c.probe,
                          marker |-> c.at # 0, latencyBefore |-> d.latency,
                          frequency |-> c.frequency, timeout |-> c.timeout ] ]

\* every registered handlePong, in registration (id) order
RECURSIVE PongListeners(_, _)
PongListeners(d, gs) ==
    IF gs = {} THEN d
    ELSE LET g == CHOOSE x \in gs : \A y \in gs : x <= y
         IN PongListeners(HandlePong(d, g), gs \ {g})

\* -------------------------------------------------------- useStatusState
\* function handleStatus({ detail: [ online, latency, rate ] })
HandleStatus(d, detail) ==
    [ d EXCEPT !.online = IF ~ statusClosure.ignoreOnlineStatus THEN detail[1] ELSE @,
               !.statusLatency = detail[2],
               !.rate = detail[3],
               !.status = detail ]

\* ----------------------------------------------- listeners.dispatchEvent
\* re[id] is what the subscriber of application signals does on envelope id.
RECURSIVE DispatchEvent(_, _, _), FreezeRun(_, _, _), Drain(_, _)

\* (variant) the drain takes the newest envelope first: pop() for shift()
DrainNewestFirst(d, re) ==
    IF d.frozenEventQ = <<>> THEN d
    ELSE Drain(DispatchEvent(
                  [d EXCEPT !.frozenEventQ = SubSeq(@, 1, Len(@) - 1)],
                  d.frozenEventQ[Len(d.frozenEventQ)], re), re)

\* while (frozenEventQ.length != 0) listeners.dispatchEvent(frozenEventQ.shift())
Drain(d, re) ==
    IF d.frozenEventQ = <<>> THEN d
    ELSE Drain(DispatchEvent([d EXCEPT !.frozenEventQ = Tail(@)],
                             Head(d.frozenEventQ), re), re)

\* (variant) freeze toggles the flag instead of assigning its argument
FreezeToggles(d, _frozen, re) ==
    LET d1 == [d EXCEPT !.frozen = ~ @]
    IN IF ~ d1.frozen THEN Drain(d1, re) ELSE d1

\* function freeze(_frozen)
FreezeRun(d, _frozen, re) ==
    LET d1 == [d EXCEPT !.frozen = _frozen]
    IN IF ~ d1.frozen THEN Drain(d1, re) ELSE d1

\* listeners.dispatchEvent(m2Event) on the hub of the first render, the one
\* handleMessage and the first render's freeze close over
DispatchEvent(d, m2Event, re) ==
    LET d1 == [d EXCEPT !.delivered =
                   Append(@, [id |-> m2Event.id, frozen |-> d.frozen])]
    IN CASE m2Event.type = "pong"   ->
               PongListeners(d1, { g \in pongHandlers : d1.closures[g].listeners = 1 })
         [] m2Event.type = "status" -> HandleStatus(d1, m2Event.detail)
         [] m2Event.type = "signal" ->
               ( CASE re[m2Event.id] = "engage"  -> FreezeRun(d1, TRUE, re)
                   [] re[m2Event.id] = "release" -> FreezeRun(d1, FALSE, re)
                   [] OTHER -> d1 )
         [] OTHER -> d1

\* ids of the application signals among a sequence of envelopes
SignalIds(q) == { q[i].id : i \in { j \in 1..Len(q) : q[j].type = "signal" } }

\* the state after a run, written back
Commit(d) ==
    /\ frozen' = d.frozen
    /\ frozenEventQ' = d.frozenEventQ
    /\ delivered' = d.delivered
    /\ closures' = d.closures
    /\ connected' = d.connected
    /\ latency' = d.latency
    /\ online' = d.online
    /\ statusLatency' = d.statusLatency
    /\ rate' = d.rate

\* ids dispatched by a run that ended in d
Dispatched(d) ==
    [ i \in 1..(Len(d.delivered) - Len(delivered)) |->
          d.delivered[Len(delivered) + i].id ]

\* (variant) the else is missing: a frozen envelope is queued and dispatched
AcceptWithoutElse(d, m2Event, re) ==
    DispatchEvent(IF d.frozen THEN [d EXCEPT !.frozenEventQ = Append(@, m2Event)] ELSE d,
                  m2Event, re)

\* (variant) every envelope is pushed on the queue, whatever the flag says
AcceptQueuesAlways(d, m2Event, re) ==
    [d EXCEPT !.frozenEventQ = Append(@, m2Event)]

\* if (frozen) frozenEventQ.push(m2Event) else listeners.dispatchEvent(m2Event)
Accept(d, m2Event, re) ==
    IF d.frozen
    THEN [d EXCEPT !.frozenEventQ = Append(@, m2Event)]
    ELSE DispatchEvent(d, m2Event, re)

\* history: payload.event of the frame is present and not the empty string
Named(frame) == "event" \in DOMAIN frame /\ frame.event # ""

\* history: a pong frame has reached handleMessage, whatever the gate does
\* with it: the pings awaiting an answer have theirs
PongArrived(d, m2Event) ==
    IF m2Event.type # "pong" THEN d
    ELSE [ d EXCEPT !.closures =
              [ g \in DOMAIN @ |->
                   [ @[g] EXCEPT !.remote = IF @ = "awaiting" THEN "prompt" ELSE @ ] ] ]

\* history: the kind of the handler run before this one
Prev ==
    CASE last.op = "message" -> IF last.error THEN "error" ELSE "message"
      [] last.op = "freeze"  -> IF last.arg THEN "engage" ELSE "release"
      [] OTHER -> "other"

\* function handleMessage(event), the ws 'message' listener
HandleMessage(frame, re) ==
    /\ messageHandler
    /\ IF ~ Parses(frame)
       THEN \* catch { throw new Error(...) }: reported, nothing else happens
            /\ last' = [op |-> "message", json |-> frame.json, error |-> TRUE,
                        named |-> Named(frame),
                        prev |-> Prev, pong |-> <<>>, status |-> <<>>]
            /\ UNCHANGED << gateVars, monitorVars, statusVars >>
       ELSE /\ decoded < MaxMsgs
            /\ LET m2Event == CustomEvent(decoded + 1, frame)
                   d == Accept(PongArrived(Running, m2Event), m2Event, re)
               IN /\ Commit(d)
                  /\ decoded' = decoded + 1
                  /\ held' = IF frozen THEN Append(held, m2Event.id) ELSE held
                  /\ last' = [op |-> "message", json |-> frame.json, error |-> FALSE,
                              named |-> Named(frame),
                              prev |-> Prev, pong |-> d.pong, status |-> d.status]
            /\ UNCHANGED << messageHandler, timers, pongHandlers, props, effect,
                            ignoreOnlineStatus, statusClosure >>
    /\ UNCHANGED << now, renderVars >>

\* a consumer calls the context's freeze(_frozen)
Freeze(_frozen, re) ==
    /\ LET d == FreezeRun(Running, _frozen, re)
       IN /\ Commit(d)
          /\ held' = IF _frozen THEN held ELSE <<>>
          /\ last' = [op |-> "freeze", arg |-> _frozen, wasFrozen |-> frozen,
                      prev |-> Prev, held |-> held, drained |-> Dispatched(d),
                      pong |-> d.pong, status |-> d.status]
    /\ UNCHANGED << now, renderVars, messageHandler, decoded, timers, pongHandlers, props, effect,
                    ignoreOnlineStatus, statusClosure >>

\* ------------------------------------------- usePingPongState: the effect
\* (variant) the timeout branch forgets at = 0, so the marker stays set
TickKeepsMarker(g) ==
    /\ g \in timers
    /\ LET c == closures[g]
           gap == now - c.previousCheck
           late == gap > 2 * c.frequency
           declare == c.at # 0 /\ late /\ now - c.at >= c.timeout
           ping == ~ (c.at # 0 /\ late)
       IN /\ gap >= c.frequency
          /\ connected' = IF declare THEN FALSE ELSE connected
          /\ closures' = [closures EXCEPT ![g] =
                [c EXCEPT !.at = IF ping THEN now ELSE @,
                          !.previousCheck = now,
                          !.probe = IF declare THEN 0
                                    ELSE IF ping THEN (IF @ = 0 THEN now ELSE @)
                                    ELSE 0,
                          !.declared = declare,
                          !.remote = IF @ # "prompt" THEN "late"
                                     ELSE IF ping THEN "awaiting" ELSE @]]
          /\ last' = [op |-> "tick", instance |-> g,
                      frequency |-> c.frequency, timeout |-> c.timeout,
                      gap |-> gap, outstanding |-> c.at # 0,
                      sentAgo |-> IF c.at # 0 THEN now - c.at ELSE -1,
                      probeAge |-> IF c.probe # 0 THEN now - c.probe ELSE -1,
                      reconnect |-> declare, ping |-> ping,
                      afterDeclared |-> c.declared,
                      prompt |-> c.remote = "prompt",
                      pong |-> <<>>, status |-> <<>>]
    /\ UNCHANGED << now, renderVars, gateVars, timers, pongHandlers, props, effect, latency,
                    statusVars >>

\* (variant) a late tick declares disconnection without the timeout test
TickWithoutTimeout(g) ==
    /\ g \in timers
    /\ LET c == closures[g]
           gap == now - c.previousCheck
           late == gap > 2 * c.frequency
           declare == c.at # 0 /\ late
           ping == ~ (c.at # 0 /\ late)
       IN /\ gap >= c.frequency
          /\ connected' = IF declare THEN FALSE ELSE connected
          /\ closures' = [closures EXCEPT ![g] =
                [c EXCEPT !.at = IF declare THEN 0 ELSE IF ping THEN now ELSE @,
                          !.previousCheck = now,
                          !.probe = IF declare THEN 0
                                    ELSE IF ping THEN (IF @ = 0 THEN now ELSE @)
                                    ELSE 0,
                          !.declared = declare,
                          !.remote = IF @ # "prompt" THEN "late"
                                     ELSE IF ping THEN "awaiting" ELSE @]]
          /\ last' = [op |-> "tick", instance |-> g,
                      frequency |-> c.frequency, timeout |-> c.timeout,
                      gap |-> gap, outstanding |-> c.at # 0,
                      sentAgo |-> IF c.at # 0 THEN now - c.at ELSE -1,
                      probeAge |-> IF c.probe # 0 THEN now - c.probe ELSE -1,
                      reconnect |-> declare, ping |-> ping,
                      afterDeclared |-> c.declared,
                      prompt |-> c.remote = "prompt",
                      pong |-> <<>>, status |-> <<>>]
    /\ UNCHANGED << now, renderVars, gateVars, timers, pongHandlers, props, effect, latency,
                    statusVars >>

\* setInterval(() => {...}, frequency): one run of the callback of instance g.
\* A timer never fires early, so the previous check is at least frequency ago.
Tick(g) ==
    /\ g \in timers
    /\ LET c == closures[g]
           gap == now - c.previousCheck
           late == gap > 2 * c.frequency
           declare == c.at # 0 /\ late /\ now - c.at >= c.timeout
           ping == ~ (c.at # 0 /\ late)
       IN /\ gap >= c.frequency
          /\ connected' = IF declare THEN FALSE ELSE connected
          /\ closures' = [closures EXCEPT ![g] =
                [c EXCEPT !.at = IF declare THEN 0 ELSE IF ping THEN now ELSE @,
                          !.previousCheck = now,
                          !.probe = IF declare THEN 0
                                    ELSE IF ping THEN (IF @ = 0 THEN now ELSE @)
                                    ELSE 0,
                          !.declared = declare,
                          !.remote = IF @ # "prompt" THEN "late"
                                     ELSE IF ping THEN "awaiting" ELSE @]]
          /\ last' = [op |-> "tick", instance |-> g,
                      frequency |-> c.frequency, timeout |-> c.timeout,
                      gap |-> gap, outstanding |-> c.at # 0,
                      sentAgo |-> IF c.at # 0 THEN now - c.at ELSE -1,
                      probeAge |-> IF c.probe # 0 THEN now - c.probe ELSE -1,
                      reconnect |-> declare, ping |-> ping,
                      afterDeclared |-> c.declared,
                      prompt |-> c.remote = "prompt",
                      pong |-> <<>>, status |-> <<>>]
    /\ UNCHANGED << now, renderVars, gateVars, timers, pongHandlers, props, effect, latency,
                    statusVars >>

\* the intervals, the pong listeners and the closures they keep alive
Registry == [closures |-> closures, timers |-> timers, pongHandlers |-> pongHandlers]

\* (variant) the cleanup forgets clearInterval(intervalId)
CleanupKeepsInterval(r, g) ==
    LET hs == r.pongHandlers \ {g}
        ts == r.timers
    IN [ closures |-> [h \in (DOMAIN r.closures) \cap (ts \cup hs) |-> r.closures[h]],
         timers |-> ts, pongHandlers |-> hs ]

\* the effect's cleanup of instance g:
\* listeners.removeEventListener('pong', handlePong); clearInterval(intervalId)
Cleanup(r, g) ==
    LET hs == r.pongHandlers \ {g}
        ts == r.timers \ {g}
    IN [ closures |-> [h \in (DOMAIN r.closures) \cap (ts \cup hs) |-> r.closures[h]],
         timers |-> ts, pongHandlers |-> hs ]

\* the effect's body, run as instance g by a render whose state is conn
Effect(r, g, cfg, conn) ==
    [ closures |-> (g :> NewClosure(cfg, conn)) @@ r.closures,
      timers |-> r.timers \cup {g},
      pongHandlers |-> r.pongHandlers \cup {g} ]

\* interval ids not in use
FreeIds(r) == (1..MaxInst) \ DOMAIN r.closures

SetRegistry(r) ==
    /\ closures' = r.closures
    /\ timers' = r.timers
    /\ pongHandlers' = r.pongHandlers

\* a component calls usePingPongState(frequency, timeout) for the first time
MonitorMount(cfg) ==
    /\ effect = 0
    /\ FreeIds(Registry) # {}
    /\ LET g == CHOOSE x \in FreeIds(Registry) : \A y \in FreeIds(Registry) : x <= y
       IN /\ SetRegistry(Effect(Registry, g, cfg, FALSE))
          /\ effect' = g
    /\ props' = cfg
    /\ connected' = FALSE
    /\ latency' = 0
    /\ last' = [op |-> "mount", pong |-> <<>>, status |-> <<>>]
    /\ UNCHANGED << now, renderVars, gateVars, statusVars >>

\* that component unmounts
MonitorUnmount ==
    /\ effect # 0
    /\ SetRegistry(Cleanup(Registry, effect))
    /\ props' = <<>>
    /\ effect' = 0
    /\ last' = [op |-> "unmount", pong |-> <<>>, status |-> <<>>]
    /\ UNCHANGED << now, renderVars, gateVars, connected, latency, statusVars >>

\* a render with another frequency or timeout: the dependencies
\* [ws, frequency, timeout] changed, so the cleanup runs and then the effect
Reconfigure(cfg) ==
    /\ effect # 0
    /\ cfg # props
    /\ LET r == Cleanup(Registry, effect)
       IN /\ FreeIds(r) # {}
          /\ LET g == CHOOSE x \in FreeIds(r) : \A y \in FreeIds(r) : x <= y
             IN /\ SetRegistry(Effect(r, g, cfg, connected))
                /\ effect' = g
    /\ props' = cfg
    /\ last' = [op |-> "reconfigure", pong |-> <<>>, status |-> <<>>]
    /\ UNCHANGED << now, renderVars, gateVars, connected, latency, statusVars >>

\* --------------------------------------------- useStatusState: the hotkeys
\* useHotkeys(options?.forceOnlineKey, ...) / useHotkeys(options?.forceOfflineKey, ...)
Force(value) ==
    /\ ignoreOnlineStatus' = TRUE
    /\ online' = value
    /\ last' = [op |-> "hotkey", arg |-> value, pong |-> <<>>, status |-> <<>>]
    /\ UNCHANGED << now, renderVars, gateVars, monitorVars, statusLatency, rate, statusClosure >>

\* ------------------------------------------------- M2Provider re-renders
\* M2Provider runs again (new props or a parent render): the body creates a
\* new EventTarget, a new frozen = false and a new frozenEventQ = [], and
\* the context value carries the new listeners and the new freeze.  The
\* effect has dependencies [ws], so handleMessage of the first render stays.
ProviderRender ==
    /\ rendered < MaxRenders
    /\ rendered' = rendered + 1
    /\ context' = [frozen |-> FALSE, frozenEventQ |-> <<>>]
    /\ last' = [op |-> "render", pong |-> <<>>, status |-> <<>>]
    /\ UNCHANGED << now, gateVars, monitorVars, statusVars >>

\* frozen and frozenEventQ as the current context value's freeze sees them
ContextGate ==
    IF rendered = 1 THEN [frozen |-> frozen, frozenEventQ |-> frozenEventQ]
    ELSE context

\* freeze(_frozen) of a render after the first: it assigns that render's
\* frozen and drains that render's frozenEventQ on that render's hub
RenderFreeze(_frozen) ==
    /\ rendered > 1
    /\ context' = [context EXCEPT
                      !.frozen = _frozen,
                      !.frozenEventQ = IF _frozen THEN @ ELSE <<>>]
    /\ last' = [op |-> "freeze", arg |-> _frozen, wasFrozen |-> context.frozen,
                prev |-> Prev, held |-> held,
                drained |-> IF _frozen THEN <<>>
                            ELSE [i \in 1..Len(context.frozenEventQ) |->
                                     context.frozenEventQ[i].id],
                pong |-> <<>>, status |-> <<>>]
    /\ UNCHANGED << now, rendered, gateVars, monitorVars, statusVars >>

\* ------------------------------------------------------------------ time
Advance ==
    /\ now < MaxTime
    /\ now' = now + 1
    /\ last' = [op |-> "wait", pong |-> <<>>, status |-> <<>>]
    /\ UNCHANGED << renderVars, gateVars, monitorVars, statusVars >>

\* --------------------------------------------------------- specification
\* M2Provider rendered once with useStatusState below it; no component
\* uses usePingPongState yet.
Init ==
    /\ now = 1
    /\ messageHandler = TRUE
    /\ frozen = FALSE
    /\ frozenEventQ = <<>>
    /\ decoded = 0
    /\ held = <<>>
    /\ delivered = <<>>
    /\ props = <<>>
    /\ closures = [g \in {} |-> 0]
    /\ effect = 0
    /\ timers = {}
    /\ pongHandlers = {}
    /\ connected = FALSE
    /\ latency = 0
    /\ online = FALSE
    /\ ignoreOnlineStatus = FALSE
    /\ statusLatency = 0
    /\ rate = 0
    /\ statusClosure = [ignoreOnlineStatus |-> FALSE]
    /\ rendered = 1
    /\ context = [frozen |-> FALSE, frozenEventQ |-> <<>>]
    /\ last = [op |-> "render", pong |-> <<>>, status |-> <<>>]

\* what the subscriber of application signals does on each envelope it gets
Reactions(ids) == [ids -> Reentries]

\* a text frame of the set F arrives on the transport
Receive(F) ==
    \E frame \in F :
       \E re \in Reactions(IF frozen \/ ~ Parses(frame) \/ EventType(frame) # "signal"
                           THEN {} ELSE {decoded + 1}) :
          HandleMessage(frame, re)

\* a consumer engages or releases the freeze gate
CallFreeze ==
    \E f \in BOOLEAN :
       \E re \in Reactions(IF f THEN {} ELSE SignalIds(frozenEventQ)) :
          Freeze(f, re)

\* a consumer engages or releases through the current context value
CallContextFreeze ==
    \E f \in BOOLEAN :
       IF rendered = 1
       THEN \E re \in Reactions(IF f THEN {} ELSE SignalIds(frozenEventQ)) :
               Freeze(f, re)
       ELSE RenderFreeze(f)

Interval == \E g \in timers : Tick(g)

\* the component using usePingPongState renders with arguments from C, or unmounts
Rerender(C) ==
    \/ \E cfg \in C : MonitorMount(cfg)
    \/ MonitorUnmount
    \/ \E cfg \in C : Reconfigure(cfg)

Hotkey == \E value \in BOOLEAN : Force(value)

\* the whole layer
Next ==
    \/ Receive(Frames) \/ CallFreeze \/ Interval
    \/ Rerender(Configs \cup NonPositive) \/ Hotkey \/ Advance
    \/ ProviderRender \/ CallContextFreeze

Spec == Init /\ [][Next]_vars

\* The three parts on their own, each with the inputs that reach it.
\* The freeze gate: every frame, engage and release; the clock stands still.
NextGate == Receive(Frames) \/ CallFreeze

SpecGate == Init /\ [][NextGate]_vars

\* The heartbeat monitor behind the gate: pong frames, engage and release,
\* the interval, the clock, re-renders.
PongFrames == { frame \in Frames : Parses(frame) /\ EventType(frame) = "pong" }

NextMonitor ==
    Receive(PongFrames) \/ CallFreeze \/ Interval \/ Rerender(Configs) \/ Advance

SpecMonitor == Init /\ [][NextMonitor]_vars

\* The heartbeat monitor called with any arguments, non-positive ones included.
NextAnyConfig ==
    Receive(PongFrames) \/ Interval \/ Rerender(Configs \cup NonPositive) \/ Advance

SpecAnyConfig == Init /\ [][NextAnyConfig]_vars

\* The status tracker: status frames and the two hotkeys.
StatusFrames == { frame \in Frames : Parses(frame) /\ EventType(frame) = "status" }

NextStatus == Receive(StatusFrames) \/ CallFreeze \/ Hotkey

SpecStatus == Init /\ [][NextStatus]_vars

\* The freeze gate under re-renders of M2Provider: every frame, engage and
\* release through the current context value, and the re-render.
NextRender == Receive(Frames) \/ CallContextFreeze \/ ProviderRender

SpecRender == Init /\ [][NextRender]_vars

\* ================================================================ claims

\* C1: the envelopes that arrive while the gate is Frozen are, on the next
\* release, dispatched exactly once each and in their order of arrival.
C1_FrozenOrder ==
    (last.op = "freeze" /\ ~ last.arg) => last.drained = last.held

C1_Witness ==
    /\ last.op = "freeze" /\ ~ last.arg /\ last.wasFrozen
    /\ Len(last.drained) >= 2

\* C2 (as claimed): once a hotkey has forced the online value, a status event
\* leaves online as forced and sets latency and rate to the event's values.
C2_Override ==
    [][ (ignoreOnlineStatus /\ last'.status # <<>>) =>
           /\ online' = online
           /\ statusLatency' = last'.status[2]
           /\ rate' = last'.status[3] ]_vars

\* C3 (as claimed): on a tick after a regular gap (at most 2 * frequency), with
\* a ping unanswered for at least timeout, the monitor declares the channel
\* disconnected and calls ws.reconnect().
C3_Liveness ==
    ( /\ last.op = "tick"
      /\ last.frequency > 0 /\ last.timeout > 0
      /\ last.gap <= 2 * last.frequency
      /\ last.probeAge >= last.timeout )
    => (last.reconnect /\ ~ connected)

\* C4 (as claimed): on a tick whose gap since the previous tick exceeds
\* 2 * frequency the monitor does not declare disconnection or reconnect; it
\* records a new send time and publishes ping.
C4_Backgrounding ==
    ( /\ last.op = "tick"
      /\ last.frequency > 0 /\ last.timeout > 0
      /\ last.gap > 2 * last.frequency )
    => (~ last.reconnect /\ last.ping)

\* C5 (as claimed): a pong dispatched d after the ping of the outstanding probe,
\* d less than the period, records latency d, sets connected and clears the
\* probe marker.
C5_Recovery ==
    ( /\ last.pong # <<>>
      /\ last.pong.frequency > 0 /\ last.pong.timeout > 0
      /\ last.pong.outstanding
      /\ last.pong.d < last.pong.frequency )
    => ( /\ latency = last.pong.d
         /\ connected
         /\ closures[last.pong.instance].at = 0 )

\* C6: envelopes are dispatched in the order they were decoded, each at most
\* once; none is dropped (what is not dispatched is queued, in order), and
\* whenever the gate is Flowing every decoded envelope has been dispatched.
C6_Order ==
    /\ \A i \in 1..Len(delivered) : delivered[i].id = i
    /\ \A i \in 1..Len(frozenEventQ) : frozenEventQ[i].id = Len(delivered) + i
    /\ Len(delivered) + Len(frozenEventQ) = decoded
    /\ ~ frozen => Len(delivered) = decoded

C6_Witness ==
    /\ last.op = "freeze" /\ ~ last.arg
    /\ Len(last.drained) >= 1
    /\ Len(delivered) > Len(last.drained)
    /\ decoded = Len(delivered)

\* C7: a frame that is not valid in the wire format is reported and changes
\* nothing (flag, queue, listeners, handler registration); the valid frame
\* after it is decoded and queued if Frozen, dispatched otherwise.
C7_DecodeRobust ==
    [][ /\ (last'.op = "message" /\ last'.json # "object") =>
              /\ last'.error
              /\ UNCHANGED << now, gateVars, monitorVars, statusVars >>
              /\ messageHandler'
        /\ (last.op = "message" /\ last.error /\ last'.op = "message" /\ ~ last'.error) =>
              /\ decoded' = decoded + 1
              /\ IF frozen
                 THEN /\ Len(frozenEventQ') = Len(frozenEventQ) + 1
                      /\ frozenEventQ'[Len(frozenEventQ')].id = decoded'
                      /\ delivered' = delivered
                 ELSE /\ Len(delivered') = Len(delivered) + 1
                      /\ delivered'[Len(delivered')].id = decoded'
                      /\ frozenEventQ' = frozenEventQ ]_vars

C7_Witness ==
    /\ last.op = "message" /\ ~ last.error /\ last.prev = "error"
    /\ frozen /\ Len(frozenEventQ) >= 1

\* C8: freeze(true) on a Frozen gate changes nothing; freeze(false) on a
\* Flowing gate dispatches nothing and leaves it Flowing with an empty queue.
C8_Idempotent ==
    [][ last'.op = "freeze" =>
           /\ (last'.arg /\ frozen) =>
                 UNCHANGED << now, gateVars, monitorVars, statusVars >>
           /\ (~ last'.arg /\ ~ frozen) =>
                 /\ delivered' = delivered
                 /\ ~ frozen'
                 /\ frozenEventQ' = <<>>
                 /\ UNCHANGED << now, gateVars, monitorVars, statusVars >> ]_vars

C8_Witness ==
    /\ last.op = "freeze" /\ last.arg /\ last.prev = "engage"
    /\ Len(frozenEventQ) >= 1

\* C9 (as claimed): a configuration with a non-positive frequency or timeout
\* is rejected: no interval runs for it and no ping is published for it.
C9_Rejected ==
    /\ \A g \in timers : closures[g].frequency > 0 /\ closures[g].timeout > 0
    /\ last.op = "tick" => (last.frequency > 0 /\ last.timeout > 0)

\* C10: at most one interval and one pong handler exist, those of the current
\* effect; after the cleanup no tick and no pong handler of that instance runs
\* (while unmounted nothing touches connected or latency), and a tick or pong
\* handler that runs belongs to the current effect and its configuration.
C10_Teardown ==
    [][ /\ Cardinality(timers') <= 1 /\ Cardinality(pongHandlers') <= 1
        /\ timers' \subseteq {effect'} /\ pongHandlers' \subseteq {effect'}
        /\ (effect = 0 /\ effect' = 0) =>
              /\ last'.op # "tick"
              /\ last'.pong = <<>>
              /\ connected' = connected /\ latency' = latency
        /\ last'.op = "tick" =>
              /\ last'.instance = effect'
              /\ << last'.frequency, last'.timeout >> = props'
        /\ last'.pong # <<>> => last'.pong.instance = effect' ]_vars

C10_Witness ==
    /\ effect = 0
    /\ last.op = "freeze" /\ ~ last.arg
    /\ Len(last.drained) >= 1
    /\ connected

\* C11: the tick that declares disconnection calls ws.reconnect() once and
\* clears the marker; the instance's next tick publishes a new ping and does
\* not reconnect again.
C11_OncePerEpisode ==
    /\ (last.op = "tick" /\ last.reconnect) =>
          /\ last.outstanding /\ ~ last.ping
          /\ closures[last.instance].at = 0
          /\ ~ connected
    /\ (last.op = "tick" /\ last.afterDeclared) =>
          /\ last.ping /\ ~ last.reconnect
          /\ closures[last.instance].at = now

C11_Witness ==
    /\ last.op = "tick" /\ last.afterDeclared /\ last.ping
    /\ ~ connected

\* C12: a tick that sets connected to false or calls ws.reconnect() had a
\* probe outstanding whose recorded send time is at least timeout ago.
C12_NeverPremature ==
    [][ last'.op = "tick" =>
           ( (last'.reconnect \/ (connected /\ ~ connected')) =>
                /\ last'.outstanding
                /\ last'.sentAgo >= last'.timeout ) ]_vars

C12_Witness ==
    /\ last.op = "tick" /\ last.reconnect
    /\ last.sentAgo >= last.timeout

\* C13 (as claimed): a tick with a probe outstanding, a gap of at most
\* 2 * frequency and less than timeout since the probe was sent publishes no
\* ping and leaves the recorded send time unchanged.
C13_NoReprobe ==
    ( /\ last.op = "tick"
      /\ last.outstanding
      /\ last.gap <= 2 * last.frequency
      /\ last.sentAgo < last.timeout )
    => ( /\ ~ last.ping
         /\ closures[last.instance].at = now - last.sentAgo )

\* C14 (as claimed): a pong handled while no probe is outstanding (at = 0)
\* marks the monitor connected, leaves the recorded latency as it was and
\* leaves the marker at none outstanding.
C14_StrayPong ==
    ( last.pong # <<>> /\ ~ last.pong.marker )
    => ( /\ connected
         /\ latency = last.pong.latencyBefore
         /\ closures[last.pong.instance].at = 0 )

\* C15 (as claimed): a frame whose event field is missing or empty is handled
\* as a decode failure: it is reported and no envelope of it is dispatched or
\* queued.
C15_NamedEnvelopes ==
    ( last.op = "message" /\ ~ last.named ) => last.error

\* C16: an envelope arriving while the gate is Frozen is appended to the tail
\* of the queue and nothing is dispatched until a release is called; an
\* envelope arriving while Flowing is dispatched at once and the queue is left
\* untouched; between handler runs a Flowing gate has an empty queue.
C16_QueueDiscipline ==
    [][ /\ (last'.op = "message" /\ ~ last'.error /\ frozen) =>
              /\ SubSeq(frozenEventQ', 1, Len(frozenEventQ)) = frozenEventQ
              /\ Len(frozenEventQ') = Len(frozenEventQ) + 1
              /\ frozenEventQ'[Len(frozenEventQ')].id = decoded'
              /\ delivered' = delivered
              /\ frozen'
        /\ (last'.op = "message" /\ ~ last'.error /\ ~ frozen) =>
              /\ delivered' = Append(delivered, [id |-> decoded', frozen |-> FALSE])
              /\ frozenEventQ' = frozenEventQ
        /\ (frozen /\ delivered' # delivered) =>
              (last'.op = "freeze" /\ ~ last'.arg)
        /\ ~ frozen => frozenEventQ = <<>>
        /\ ~ frozen' => frozenEventQ' = <<>> ]_vars

C16_Witness ==
    /\ last.op = "message" /\ ~ last.error
    /\ frozen /\ Len(frozenEventQ) >= 2
    /\ Len(delivered) >= 1

\* C17 (as claimed): the override flag never goes back to false once a hotkey
\* has set it, a hotkey sets online to the forced value, and from then on
\* nothing but another hotkey changes online.
C17_StickyOverride ==
    [][ /\ ignoreOnlineStatus => ignoreOnlineStatus'
        /\ last'.op = "hotkey" => (ignoreOnlineStatus' /\ online' = last'.arg)
        /\ (ignoreOnlineStatus /\ last'.op # "hotkey") => online' = online ]_vars

\* C18 (as claimed): no envelope is dispatched while the gate is Frozen, also
\* when a listener run by a release drain calls freeze(true): the drain stops
\* and what is still queued stays queued.
C18_NoDispatchFrozen ==
    \A i \in 1..Len(delivered) : ~ delivered[i].frozen

\* C19 (as claimed): after re-renders of M2Provider the current context's
\* freeze works on the gate the installed handler uses: while the context's
\* gate is engaged an arriving envelope is queued and not dispatched, and a
\* release through the context dispatches exactly the envelopes the handler
\* had queued and leaves the handler's queue empty.
C19_SameGate ==
    [][ /\ (last'.op = "message" /\ ~ last'.error /\ ContextGate.frozen) =>
              /\ delivered' = delivered
              /\ Len(frozenEventQ') = Len(frozenEventQ) + 1
        /\ (last'.op = "freeze" /\ ~ last'.arg) =>
              /\ last'.drained = last'.held
              /\ frozenEventQ' = <<>> ]_vars

\* C20 (as claimed): an instance whose every ping had its pong frame arrive
\* before the next tick never declares disconnection and never calls
\* ws.reconnect(), whatever the gate and the tick gaps do.
C20_PromptRemote ==
    ( last.op = "tick" /\ last.prompt /\ last.frequency > 0 /\ last.timeout > 0 )
    => ~ last.reconnect

====
